---- MODULE Spec2Model ----
(***************************************************************************)
(* A model of lib/allOf.js: the vocabulary tables, the keyword collapser   *)
(* functions, collapseSchemas and the post-walk callback returned by       *)
(* getCollapseAllOfCallback.                                               *)
(*                                                                         *)
(* JavaScript objects have identity and are mutated in place, so schemas   *)
(* live in a heap: a function from object ids to objects.  An object keeps *)
(* its own keys in insertion order (the order of Object.keys).             *)
(***************************************************************************)
EXTENDS Integers, Sequences, FiniteSets, TLC

VARIABLES
  heap,      \* the object store: id -> object
  before,    \* the object store as it was when the last call was made
  heap0,     \* the object store as the input was constructed
  theParent, \* the schema being collapsed into (first argument of collapseSchemas)
  theSub,    \* the schema being folded (third argument of collapseSchemas)
  theVocab,  \* the vocabulary table in use
  request,   \* the arguments getCollapseAllOfCallback is to be called with
  doc,       \* the visit order of the walk (schema values, post-order)
  pos,       \* number of nodes of doc already handed to the callback
  err,       \* the exception thrown, or NoErr
  ret,       \* the value returned by collapseSchemas
  pc         \* "call" | "init" | "walk" | "done" | "failed"

vars == <<heap, before, heap0, theParent, theSub, theVocab, request, doc, pos, err, ret, pc>>

----------------------------------------------------------------------------
(* JSON values.  Every value is a record of one shape so that any two      *)
(* values can be compared.                                                 *)

Undef   == [t |-> "undef", n |-> 0, x |-> "", s |-> <<>>]
NaN     == [t |-> "nan",   n |-> 0, x |-> "", s |-> <<>>]
Num(i)  == [t |-> "num",   n |-> i, x |-> "", s |-> <<>>]
Bool(b) == [t |-> "bool",  n |-> IF b THEN 1 ELSE 0, x |-> "", s |-> <<>>]
Str(c)  == [t |-> "str",   n |-> 0, x |-> c,  s |-> <<>>]
Arr(q)  == [t |-> "arr",   n |-> 0, x |-> "", s |-> q]
Ref(i)  == [t |-> "ref",   n |-> i, x |-> "", s |-> <<>>]

JTrue  == Bool(TRUE)
JFalse == Bool(FALSE)

\* JavaScript truthiness, as used by ||.
Truthy(v) ==
  CASE v.t = "undef" -> FALSE
    [] v.t = "nan"   -> FALSE
    [] v.t = "num"   -> v.n # 0
    [] v.t = "bool"  -> v.n = 1
    [] v.t = "str"   -> v.x # ""
    [] OTHER         -> TRUE

IsNumeric(v) == v.t \in {"num", "bool"}

\* Math.max / Math.min: a non-numeric operand gives NaN.
MathMax(a, b) ==
  IF IsNumeric(a) /\ IsNumeric(b) THEN Num(IF a.n >= b.n THEN a.n ELSE b.n) ELSE NaN

MathMin(a, b) ==
  IF IsNumeric(a) /\ IsNumeric(b) THEN Num(IF a.n <= b.n THEN a.n ELSE b.n) ELSE NaN

\* The operator === on the values the bound keywords hold.
StrictEq(a, b) ==
  CASE a.t = "nan" \/ b.t = "nan" -> FALSE
    [] a.t = "arr" \/ b.t = "arr" -> FALSE
    [] OTHER -> a = b

\* The operators < and > : false unless both operands are numbers.
Less(a, b) == IsNumeric(a) /\ IsNumeric(b) /\ a.n < b.n

----------------------------------------------------------------------------
(* Heap objects.  kind "obj": keys (insertion order) and val; kind "arr":  *)
(* elems.                                                                  *)

Obj(ks, f) == [kind |-> "obj", keys |-> ks, val |-> f, elems |-> <<>>]
ArrObj(es) == [kind |-> "arr", keys |-> <<>>, val |-> <<>>, elems |-> es]
EmptyObj   == Obj(<<>>, <<>>)

Range(q) == {q[i] : i \in DOMAIN q}

\* o.hasOwnProperty(k)
Has(h, o, k) == k \in Range(h[o].keys)

\* o[k]
Get(h, o, k) == IF Has(h, o, k) THEN h[o].val[k] ELSE Undef

\* o[k] = v
Set(h, o, k, v) ==
  LET ob == h[o] IN
  IF Has(h, o, k)
  THEN [h EXCEPT ![o] = [ob EXCEPT !.val =
                           [j \in Range(ob.keys) |-> IF j = k THEN v ELSE ob.val[j]]]]
  ELSE [h EXCEPT ![o] = [ob EXCEPT !.keys = Append(ob.keys, k),
                                   !.val  = [j \in Range(ob.keys) \cup {k} |->
                                               IF j = k THEN v ELSE ob.val[j]]]]

\* delete o[k]
Del(h, o, k) ==
  LET ob == h[o] IN
  IF Has(h, o, k)
  THEN [h EXCEPT ![o] = [ob EXCEPT !.keys = SelectSeq(ob.keys, LAMBDA j : j # k),
                                   !.val  = [j \in Range(ob.keys) \ {k} |-> ob.val[j]]]]
  ELSE h

IsObject(v)  == v.t = "ref"
\* Array.isArray(v)
IsArray(h, v) == (v.t = "arr") \/ (v.t = "ref" /\ h[v.n].kind = "arr")

----------------------------------------------------------------------------
(* Results of a call: the heap it leaves, the exception it threw (NoErr if *)
(* it returned) and the value it returned.  Exceptions are strings built   *)
(* from a message kind, a keyword and the slash-joined path.               *)

NoErr == [kind |-> "none", keyword |-> "", path |-> <<>>]
Throw(kind, keyword, parentPath) == [kind |-> kind, keyword |-> keyword, path |-> parentPath]

Done(h)        == [h |-> h, err |-> NoErr, ret |-> Undef]
Return(h, v)   == [h |-> h, err |-> NoErr, ret |-> v]
Raise(h, e)    == [h |-> h, err |-> e, ret |-> Undef]
Failed(r)      == r.err # NoErr

\* statement sequencing: an exception of the first step propagates, otherwise
\* the rest runs on the heap the first step left
Then(r, rest(_)) == IF Failed(r) THEN r ELSE rest(r.h)

\* lodash's castArrayLikeObject / isArrayLikeObject on a keyword value
AsList(v) == IF v.t = "arr" THEN v.s ELSE <<>>

RECURSIVE Uniq(_)
Uniq(q) ==
  IF q = <<>> THEN <<>>
  ELSE LET front == Uniq(SubSeq(q, 1, Len(q) - 1))
           last  == q[Len(q)]
       IN IF last \in Range(front) THEN front ELSE Append(front, last)

\* _.unionWith(a, b, _.isEqual) on arrays of scalars
UnionWith(a, b) == Uniq(AsList(a) \o AsList(b))

\* _.intersectionWith(a, b, _.isEqual) on arrays of scalars
IntersectionWith(a, b) ==
  Uniq(SelectSeq(AsList(a), LAMBDA e : e \in Range(AsList(b))))

\* _.union(Object.keys(a), Object.keys(b))
KeysUnion(ka, kb) == Uniq(ka \o kb)

\* _.isEqual: deep equality through the heap.
RECURSIVE IsEqual(_, _, _)
IsEqual(h, a, b) ==
  IF a.t = "ref" /\ b.t = "ref"
  THEN LET oa == h[a.n]
           ob == h[b.n]
       IN \/ a.n = b.n
          \/ /\ oa.kind = ob.kind
             /\ Range(oa.keys) = Range(ob.keys)
             /\ \A k \in Range(oa.keys) : IsEqual(h, oa.val[k], ob.val[k])
             /\ Len(oa.elems) = Len(ob.elems)
             /\ \A i \in DOMAIN oa.elems : IsEqual(h, oa.elems[i], ob.elems[i])
  ELSE a = b

----------------------------------------------------------------------------
(* Collapser functions.  Each takes the heap and the ids of the parent and *)
(* the subschema object, and gives the heap it leaves and what it threw.   *)

RECURSIVE collapseSchemas(_, _, _, _, _)

\* Logically ORs the subschema value into the parent.
_or(h, parent, parentPath, subschema, vocab, keyword) ==
  LET pv == Get(h, parent, keyword)
  IN Done(Set(h, parent, keyword, IF Truthy(pv) THEN pv ELSE Get(h, subschema, keyword)))

_maxOfMin(h, parent, parentPath, subschema, vocab, keyword) ==
  Done(Set(h, parent, keyword, MathMax(Get(h, parent, keyword), Get(h, subschema, keyword))))

_minOfMax(h, parent, parentPath, subschema, vocab, keyword) ==
  Done(Set(h, parent, keyword, MathMin(Get(h, parent, keyword), Get(h, subschema, keyword))))

\* 'exclusiveM' + keyword.slice(1)
ExcKeyword(keyword) ==
  CASE keyword = "minimum" -> "exclusiveMinimum"
    [] keyword = "maximum" -> "exclusiveMaximum"
    [] OTHER               -> "exclusiveM"

chooseSubValue(keyword, p, s) ==
  IF keyword = "minimum" THEN Less(p, s) ELSE Less(s, p)

_exclusiveComparison(h, parent, parentPath, subschema, vocab, keyword) ==
  LET excKeyword == ExcKeyword(keyword)
      pv == Get(h, parent, keyword)
      sv == Get(h, subschema, keyword)
  IN IF /\ StrictEq(pv, sv)
        /\ (Truthy(Get(h, parent, excKeyword)) \/ Truthy(Get(h, subschema, excKeyword)))
     THEN Done(Set(h, parent, excKeyword, JTrue))
     ELSE IF chooseSubValue(keyword, pv, sv)
     THEN Done(Set(Set(h, parent, keyword, sv),
                   parent, excKeyword, Get(h, subschema, excKeyword)))
     ELSE Done(h)

_arrayUnion(h, parent, parentPath, subschema, vocab, keyword) ==
  Done(Set(h, parent, keyword,
           Arr(UnionWith(Get(h, parent, keyword), Get(h, subschema, keyword)))))

_arrayIntersection(h, parent, parentPath, subschema, vocab, keyword) ==
  Done(Set(h, parent, keyword,
           Arr(IntersectionWith(Get(h, parent, keyword), Get(h, subschema, keyword)))))

\* [v] for a keyword value that is not an array
Wrap(h, v) == IF IsArray(h, v) THEN v ELSE Arr(<<v.x>>)

_singleValueOrArrayIntersection(h, parent, parentPath, subschema, vocab, keyword) ==
  LET h1 == Set(h, parent, keyword, Wrap(h, Get(h, parent, keyword)))
      h2 == Set(h1, subschema, keyword, Wrap(h1, Get(h1, subschema, keyword)))
      h3 == _arrayIntersection(h2, parent, parentPath, subschema, vocab, keyword).h
      pv == Get(h3, parent, keyword)
  IN IF Len(pv.s) = 1 THEN Done(Set(h3, parent, keyword, Str(pv.s[1]))) ELSE Done(h3)

\* the loop over the common prefix of two tuple-form "items"
RECURSIVE TupleLoop(_, _, _, _, _, _, _, _)
TupleLoop(h, pa, sa, parentPath, vocab, keyword, i, commonLength) ==
  IF i >= commonLength THEN Done(h)
  ELSE Then(collapseSchemas(h, h[pa].elems[i + 1],
                            parentPath \o <<keyword, ToString(i)>>,
                            h[sa].elems[i + 1], vocab),
            LAMBDA h1 : TupleLoop(h1, pa, sa, parentPath, vocab, keyword, i + 1, commonLength))

_collapseArrayOrSingleSchemas(h, parent, parentPath, subschema, vocab, keyword) ==
  IF /\ keyword = "items"
     /\ (Has(h, parent, "additionalItems") \/ Has(h, subschema, "additionalItems"))
  THEN Raise(h, Throw("additionalItems", "", parentPath))
  ELSE
    LET parentVal == Get(h, parent, keyword)
        subVal    == Get(h, subschema, keyword)
        parentIsArray == IsArray(h, parentVal)
        subIsArray    == IsArray(h, subVal)
    IN IF parentIsArray # subIsArray
       THEN Raise(h, Throw("mixedItems", "", parentPath))
       ELSE IF parentIsArray
       THEN LET pa == parentVal.n
                sa == subVal.n
                plen == Len(h[pa].elems)
                slen == Len(h[sa].elems)
                commonLength == IF plen <= slen THEN plen ELSE slen
            IN Then(TupleLoop(h, pa, sa, parentPath, vocab, keyword, 0, commonLength),
                    LAMBDA h1 :
                      IF Len(h1[sa].elems) > commonLength
                      THEN Done([h1 EXCEPT ![pa].elems =
                                   h1[pa].elems \o
                                   SubSeq(h1[sa].elems, commonLength + 1, Len(h1[sa].elems))])
                      ELSE Done(h1))
       ELSE Then(collapseSchemas(h, parentVal, parentPath \o <<keyword>>, subVal, vocab),
                 LAMBDA h1 : Done(h1))

\* the loop over _.union(Object.keys(parent[keyword]), Object.keys(subschema[keyword]))
RECURSIVE PropLoop(_, _, _, _, _, _, _, _)
PropLoop(h, parent, parentPath, subschema, vocab, keyword, props, i) ==
  IF i > Len(props) THEN Done(h)
  ELSE
    LET prop == props[i]
        pc_  == Get(h, parent, keyword).n
        sc   == Get(h, subschema, keyword).n
    IN IF ~Has(h, pc_, prop)
       THEN PropLoop(Set(h, pc_, prop, Get(h, sc, prop)),
                     parent, parentPath, subschema, vocab, keyword, props, i + 1)
       ELSE IF Has(h, sc, prop)
       THEN Then(collapseSchemas(h, Get(h, pc_, prop),
                                 parentPath \o <<keyword, prop>>,
                                 Get(h, sc, prop), vocab),
                 LAMBDA h1 : PropLoop(h1, parent, parentPath, subschema, vocab, keyword,
                                      props, i + 1))
       ELSE PropLoop(h, parent, parentPath, subschema, vocab, keyword, props, i + 1)

_collapseObjectOfSchemas(h, parent, parentPath, subschema, vocab, keyword) ==
  IF /\ keyword \in {"properties", "patternProperties"}
     /\ (Has(h, parent, "additionalProperties") \/ Has(h, subschema, "additionalProperties"))
  THEN Raise(h, Throw("additionalProperties", "", parentPath))
  ELSE PropLoop(h, parent, parentPath, subschema, vocab, keyword,
                KeysUnion(h[Get(h, parent, keyword).n].keys,
                          h[Get(h, subschema, keyword).n].keys), 1)

_parentWins(h, parent, parentPath, subschema, vocab, keyword) == Done(h)

_collision(h, parent, parentPath, subschema, vocab, keyword) ==
  IF ~IsEqual(h, Get(h, parent, keyword), Get(h, subschema, keyword))
  THEN Raise(h, Throw("collision", keyword, parentPath))
  ELSE Done(h)

_notSupported(h, parent, parentPath, subschema, vocab, keyword) ==
  Raise(h, Throw("notSupported", keyword, parentPath))

\* vocab[k](parent, parentPath, subschema, vocab, k)
CallHandler(h, parent, parentPath, subschema, vocab, k) ==
  LET fn == vocab[k] IN
  CASE fn = "_or"           -> _or(h, parent, parentPath, subschema, vocab, k)
    [] fn = "_maxOfMin"     -> _maxOfMin(h, parent, parentPath, subschema, vocab, k)
    [] fn = "_minOfMax"     -> _minOfMax(h, parent, parentPath, subschema, vocab, k)
    [] fn = "_exclusiveComparison" ->
         _exclusiveComparison(h, parent, parentPath, subschema, vocab, k)
    [] fn = "_arrayUnion"   -> _arrayUnion(h, parent, parentPath, subschema, vocab, k)
    [] fn = "_arrayIntersection" ->
         _arrayIntersection(h, parent, parentPath, subschema, vocab, k)
    [] fn = "_singleValueOrArrayIntersection" ->
         _singleValueOrArrayIntersection(h, parent, parentPath, subschema, vocab, k)
    [] fn = "_collapseArrayOrSingleSchemas" ->
         _collapseArrayOrSingleSchemas(h, parent, parentPath, subschema, vocab, k)
    [] fn = "_collapseObjectOfSchemas" ->
         _collapseObjectOfSchemas(h, parent, parentPath, subschema, vocab, k)
    [] fn = "_parentWins"   -> _parentWins(h, parent, parentPath, subschema, vocab, k)
    [] fn = "_collision"    -> _collision(h, parent, parentPath, subschema, vocab, k)
    [] fn = "_notSupported" -> _notSupported(h, parent, parentPath, subschema, vocab, k)

\* faulty variant of the pruning below: the exclusive flags are cleared out
\* whether or not the bound they belong to is present
PruneExclusive_Always(h, parent) ==
  LET h1 == IF Has(h, parent, "exclusiveMaximum")
            THEN Del(h, parent, "exclusiveMaximum") ELSE h
  IN IF Has(h1, parent, "exclusiveMinimum")
     THEN Del(h1, parent, "exclusiveMinimum") ELSE h1

\* the parent's dangling exclusiveMaximum / exclusiveMinimum are cleared out
PruneExclusive(h, parent) ==
  LET h1 == IF Has(h, parent, "exclusiveMaximum") /\ ~Has(h, parent, "maximum")
            THEN Del(h, parent, "exclusiveMaximum") ELSE h
  IN IF Has(h1, parent, "exclusiveMinimum") /\ ~Has(h1, parent, "minimum")
     THEN Del(h1, parent, "exclusiveMinimum") ELSE h1

\* for (let k of Object.keys(subschema)) ...
RECURSIVE KeywordLoop(_, _, _, _, _, _, _)
KeywordLoop(h, parent, parentPath, subschema, vocab, ks, i) ==
  IF i > Len(ks) THEN Done(h)
  ELSE
    LET k == ks[i] IN
    IF Has(h, parent, k)
    THEN IF k \in DOMAIN vocab
         THEN Then(CallHandler(h, parent, parentPath, subschema, vocab, k),
                   LAMBDA h1 : KeywordLoop(h1, parent, parentPath, subschema, vocab, ks, i + 1))
         ELSE KeywordLoop(h, parent, parentPath, subschema, vocab, ks, i + 1)
    ELSE KeywordLoop(Set(h, parent, k, Get(h, subschema, k)),
                     parent, parentPath, subschema, vocab, ks, i + 1)

\* faulty variant of collapseSchemas below: the two boolean tests are in the
\* opposite order, so a true subschema is a no-op even under a true parent
collapseSchemas_ReturnFirst(h, parent, parentPath, subschema, vocab) ==
  IF parent = JFalse \/ subschema = JTrue
  THEN Return(h, parent)
  ELSE IF parent = JTrue \/ (parent # JFalse /\ subschema = JFalse)
  THEN Raise(h, Throw("boolean", "", parentPath))
  ELSE LET h1 == PruneExclusive(h, parent.n)
       IN Then(KeywordLoop(h1, parent.n, parentPath, subschema.n, vocab,
                           h1[subschema.n].keys, 1),
               LAMBDA h2 : Return(h2, parent))

\* collapseSchemas(parent, parentPath, subschema, vocab); parent and subschema
\* are values: a boolean schema or a reference to an object schema.
collapseSchemas(h, parent, parentPath, subschema, vocab) ==
  IF parent = JTrue \/ (parent # JFalse /\ subschema = JFalse)
  THEN Raise(h, Throw("boolean", "", parentPath))
  ELSE IF parent = JFalse \/ subschema = JTrue
  THEN Return(h, parent)
  ELSE LET h1 == PruneExclusive(h, parent.n)
       IN Then(KeywordLoop(h1, parent.n, parentPath, subschema.n, vocab,
                           h1[subschema.n].keys, 1),
               LAMBDA h2 : Return(h2, parent))

----------------------------------------------------------------------------
(* Vocabulary tables: keyword -> name of the collapser function.           *)

\* Object.assign({}, base, overrides)
Assign(base, overrides) == overrides @@ base

DRAFT_04_NO_ID ==
  [type |-> "_singleValueOrArrayIntersection", enum |-> "_arrayIntersection",
   minimum |-> "_exclusiveComparison", maximum |-> "_exclusiveComparison",
   multipleOf |-> "_collision",
   minLength |-> "_maxOfMin", maxLength |-> "_minOfMax", pattern |-> "_collision",
   items |-> "_collapseArrayOrSingleSchemas", additionalItems |-> "_notSupported",
   minItems |-> "_maxOfMin", maxItems |-> "_minOfMax", uniqueItems |-> "_or",
   properties |-> "_collapseObjectOfSchemas",
   patternProperties |-> "_collapseObjectOfSchemas",
   additionalProperties |-> "_notSupported",
   dependencies |-> "_notSupported",
   required |-> "_arrayUnion", minProperties |-> "_maxOfMin", maxProperties |-> "_minOfMax",
   allOf |-> "_parentWins", anyOf |-> "_collision", oneOf |-> "_collision",
   not |-> "_collision",
   title |-> "_parentWins", description |-> "_parentWins", default |-> "_parentWins",
   format |-> "_collision", definitions |-> "_parentWins"]
  @@ ("$ref" :> "_notSupported")

DRAFT_04 == Assign(DRAFT_04_NO_ID, [id |-> "_parentWins"])

DRAFT_04_HYPER ==
  Assign(DRAFT_04, [links |-> "_arrayUnion", readOnly |-> "_or", media |-> "_collision",
                    pathStart |-> "_notSupported", fragmentResolution |-> "_notSupported"])

DRAFT_06 ==
  Assign(DRAFT_04_NO_ID,
         [const |-> "_collision", minimum |-> "_maxOfMin", exclusiveMinimum |-> "_maxOfMin",
          maximum |-> "_minOfMax", exclusiveMaximum |-> "_minOfMax",
          propertyNames |-> "_collapseObjectOfSchemas", examples |-> "_arrayUnion"]
         @@ ("$id" :> "_parentWins"))

DRAFT_06_HYPER ==
  Assign(DRAFT_06, [base |-> "_collision", links |-> "_arrayUnion", readOnly |-> "_or",
                    media |-> "_collision"])

DRAFT_07 ==
  Assign(DRAFT_06, [if |-> "_collision", then |-> "_collision", else |-> "_collision",
                    readOnly |-> "_or", writeOnly |-> "_or",
                    contentMediaType |-> "_collision", contentEncoding |-> "_collision"])

DRAFT_07_HYPER == Assign(DRAFT_07, [base |-> "_collision", links |-> "_arrayUnion"])

CLOUDFLARE_DOCA ==
  Assign(DRAFT_04_HYPER,
         [example |-> "_parentWins", cfPrivate |-> "_or", cfOmitFromExample |-> "_or",
          cfExtendedDescription |-> "_parentWins", cfNotes |-> "_parentWins",
          cfLinkErrors |-> "_arrayUnion", cfSectionNotes |-> "_arrayUnion",
          cfRecurse |-> "_notSupported"]
         @@ ("$comment" :> "_parentWins"))

EmptyVocab == <<>>

RECURSIVE AssignAll(_, _)
AssignAll(v, tables) ==
  IF tables = <<>> THEN v ELSE AssignAll(Assign(v, Head(tables)), Tail(tables))

\* the vocab built by getCollapseAllOfCallback(metaSchemaUri, ...additionalVocabularies)
getCollapseAllOfCallback(metaSchemaUri, additionalVocabularies) ==
  LET v == CASE metaSchemaUri = "http://json-schema.org/draft-04/schema#" ->
                  Assign(EmptyVocab, DRAFT_04)
             [] metaSchemaUri = "http://json-schema.org/draft-04/hyper-schema#" ->
                  Assign(EmptyVocab, DRAFT_04_HYPER)
             [] OTHER -> EmptyVocab
  IN AssignAll(v, additionalVocabularies)

\* the _.reduce over subschema.allOf
RECURSIVE Reduce(_, _, _, _, _, _)
Reduce(h, allOf, subAsParent, fullPath, vocab, i) ==
  IF i > Len(h[allOf].elems) THEN Done(h)
  ELSE Then(collapseSchemas(h, subAsParent, fullPath, h[allOf].elems[i], vocab),
            LAMBDA h1 : Reduce(h1, allOf, subAsParent, fullPath, vocab, i + 1))

\* faulty variant of the callback below: the folded "allOf" is not deleted
Callback_KeepAllOf(h, vocab, subschema, path, parentPath) ==
  IF IsObject(subschema) /\ Has(h, subschema.n, "allOf")
  THEN Reduce(h, Get(h, subschema.n, "allOf").n, subschema, parentPath \o path, vocab, 1)
  ELSE Done(h)

\* faulty variant of the callback below: "allOf" is deleted in every case, as
\* if in a finally block, also when the fold has thrown
Callback_DeleteAlways(h, vocab, subschema, path, parentPath) ==
  IF IsObject(subschema) /\ Has(h, subschema.n, "allOf")
  THEN LET r == Reduce(h, Get(h, subschema.n, "allOf").n, subschema, parentPath \o path,
                       vocab, 1)
       IN [r EXCEPT !.h = Del(r.h, subschema.n, "allOf")]
  ELSE Done(h)

\* the callback returned by getCollapseAllOfCallback
Callback(h, vocab, subschema, path, parentPath) ==
  IF IsObject(subschema) /\ Has(h, subschema.n, "allOf")
  THEN Then(Reduce(h, Get(h, subschema.n, "allOf").n, subschema, parentPath \o path, vocab, 1),
            LAMBDA h1 : Done(Del(h1, subschema.n, "allOf")))
  ELSE Done(h)

----------------------------------------------------------------------------
(* The document walk.  The walker is @cloudflare/json-schema-walker; it is *)
(* taken to call the post-walk callback on every schema reachable through  *)
(* properties, patternProperties, items and allOf, children first.         *)

VisitOf(v, path, parentPath) == [node |-> v, path |-> path, parentPath |-> parentPath]

RECURSIVE Walk(_, _, _, _)
RECURSIVE WalkProps(_, _, _, _, _)
RECURSIVE WalkElems(_, _, _, _, _)
RECURSIVE WalkKeys(_, _, _, _)

\* the visits below container c of keyword k, for its property names from i on
WalkProps(h, c, k, full, i) ==
  IF i > Len(h[c].keys) THEN <<>>
  ELSE Walk(h, h[c].val[h[c].keys[i]], <<k, h[c].keys[i]>>, full)
       \o WalkProps(h, c, k, full, i + 1)

\* the visits below array a of keyword k, for its elements from i on
WalkElems(h, a, k, full, i) ==
  IF i > Len(h[a].elems) THEN <<>>
  ELSE Walk(h, h[a].elems[i], <<k, ToString(i - 1)>>, full)
       \o WalkElems(h, a, k, full, i + 1)

WalkKeys(h, o, full, i) ==
  IF i > Len(h[o].keys) THEN <<>>
  ELSE LET k == h[o].keys[i]
           v == h[o].val[k]
           here ==
             CASE k \in {"properties", "patternProperties"} -> WalkProps(h, v.n, k, full, 1)
               [] k \in {"items", "allOf"} /\ IsArray(h, v) -> WalkElems(h, v.n, k, full, 1)
               [] k = "items" -> Walk(h, v, <<k>>, full)
               [] OTHER -> <<>>
       IN here \o WalkKeys(h, o, full, i + 1)

\* the post-order sequence of callback invocations for schema v
Walk(h, v, path, parentPath) ==
  IF IsObject(v)
  THEN WalkKeys(h, v.n, parentPath \o path, 1) \o <<VisitOf(v, path, parentPath)>>
  ELSE <<VisitOf(v, path, parentPath)>>

----------------------------------------------------------------------------
(* Actions.                                                                *)

\* a direct call collapseSchemas(theParent, [], theSub, theVocab)
Collapse ==
  /\ pc = "call"
  /\ \E r \in {collapseSchemas(heap, theParent, <<>>, theSub, theVocab)} :
        /\ heap' = r.h
        /\ err' = r.err
        /\ ret' = r.ret
        /\ pc' = IF Failed(r) THEN "failed" ELSE "done"
  /\ before' = heap
  /\ UNCHANGED <<heap0, theParent, theSub, theVocab, request, doc, pos>>

\* getCollapseAllOfCallback(metaSchemaUri, ...additionalVocabularies)
GetCallback ==
  /\ pc = "init"
  /\ theVocab' = getCollapseAllOfCallback(request.metaSchemaUri, request.additional)
  /\ pc' = "walk"
  /\ UNCHANGED <<heap, before, heap0, theParent, theSub, request, doc, pos, err, ret>>

\* the walker calls the callback on the next node of the post-order
Visit ==
  /\ pc = "walk"
  /\ pos < Len(doc)
  /\ \E r \in {Callback(heap, theVocab, doc[pos + 1].node, doc[pos + 1].path,
                          doc[pos + 1].parentPath)} :
        /\ heap' = r.h
        /\ err' = r.err
        /\ pos' = IF Failed(r) THEN pos ELSE pos + 1
        /\ pc' = IF Failed(r) THEN "failed"
                 ELSE IF pos + 1 = Len(doc) THEN "done" ELSE "walk"
  /\ before' = heap
  /\ UNCHANGED <<heap0, theParent, theSub, theVocab, request, doc, ret>>

----------------------------------------------------------------------------
(* Inputs.                                                                 *)

Perms(S) == {q \in [1..Cardinality(S) -> S] : \A i, j \in DOMAIN q : q[i] = q[j] => i = j}

\* the objects with key set K in every key order, values drawn by Vals(k)
ObjectsOver(K, Vals(_)) ==
  {Obj(q, f) : q \in Perms(K),
               f \in {g \in [K -> UNION {Vals(k) : k \in K}] : \A k \in K : g[k] \in Vals(k)}}

\* the same, in one key order only: that of the sequence order
Canonical(ob, order) ==
  Obj(SelectSeq(order, LAMBDA k : k \in Range(ob.keys)), ob.val)

MaxBound == 2

BoundKeys == <<"minimum", "exclusiveMinimum", "maximum", "exclusiveMaximum">>

Draft04BoundVals(k) ==
  IF k \in {"minimum", "maximum"} THEN {Num(i) : i \in 1..MaxBound} ELSE {JTrue, JFalse}

Draft04BoundObjs == UNION {ObjectsOver(K, Draft04BoundVals) : K \in SUBSET Range(BoundKeys)}

Request(metaSchemaUri, additional) ==
  [metaSchemaUri |-> metaSchemaUri, additional |-> additional]

CallInit(h, p, s, v) ==
  /\ heap = h
  /\ before = h
  /\ heap0 = h
  /\ request = Request("", <<>>)
  /\ theParent = p
  /\ theSub = s
  /\ theVocab = v
  /\ doc = <<>>
  /\ pos = 0
  /\ err = NoErr
  /\ ret = Undef
  /\ pc = "call"

\* a walk of the documents rooted at the values of roots, with the callback
\* still to be obtained
WalkInit(h, roots, req) ==
  /\ heap = h
  /\ before = h
  /\ heap0 = h
  /\ request = req
  /\ theParent = Undef
  /\ theSub = Undef
  /\ theVocab = EmptyVocab
  /\ doc = IF Len(roots) = 1 THEN Walk(h, roots[1], <<>>, <<>>)
           ELSE Walk(h, roots[1], <<>>, <<>>) \o Walk(h, roots[2], <<>>, <<>>)
  /\ pos = 0
  /\ err = NoErr
  /\ ret = Undef
  /\ pc = "init"

URI_DRAFT_04       == "http://json-schema.org/draft-04/schema#"
URI_DRAFT_04_HYPER == "http://json-schema.org/draft-04/hyper-schema#"
URI_DRAFT_06       == "http://json-schema.org/draft-06/schema#"

InitBounds ==
  \E p \in {Canonical(o, BoundKeys) : o \in Draft04BoundObjs}, s \in Draft04BoundObjs :
    CallInit(<<p, s>>, Ref(1), Ref(2), DRAFT_04)

SpecBounds == InitBounds /\ [][Collapse]_vars

----------------------------------------------------------------------------
(* Draft-04 numeric bounds (SpecBounds).                                   *)

\* integer i satisfies the draft-04 bound keywords of object o; an exclusive
\* flag without its companion bound constrains nothing
Satisfies04(h, o, i) ==
  /\ Has(h, o, "minimum") =>
        IF Truthy(Get(h, o, "exclusiveMinimum"))
        THEN i > Get(h, o, "minimum").n ELSE i >= Get(h, o, "minimum").n
  /\ Has(h, o, "maximum") =>
        IF Truthy(Get(h, o, "exclusiveMaximum"))
        THEN i < Get(h, o, "maximum").n ELSE i <= Get(h, o, "maximum").n

Instances == 0..(MaxBound + 1)

\* C1: whenever collapseSchemas(parent, path, subschema, DRAFT_04) succeeds on
\* nodes built from minimum, maximum and the boolean exclusive flags, an integer
\* satisfies the resulting parent's bounds if and only if it satisfies both the
\* original parent's and the subschema's bounds.
C1_LogicalAnd ==
  pc = "done" =>
    \A i \in Instances :
      Satisfies04(heap, theParent.n, i)
        <=> (Satisfies04(before, theParent.n, i) /\ Satisfies04(before, theSub.n, i))

\* the side (1: parent, 2: subschema) holding the strictly tighter bound
Winner(h, keyword) ==
  IF chooseSubValue(keyword, Get(h, 1, keyword), Get(h, 2, keyword)) THEN 2 ELSE 1

BothDefineDifferent(h, keyword) ==
  /\ Has(h, 1, keyword) /\ Has(h, 2, keyword)
  /\ Get(h, 1, keyword) # Get(h, 2, keyword)

\* C4: when parent and subschema define minimum (resp. maximum) with different
\* values, the collapsed parent holds the tighter bound together with the
\* exclusivity flag of the side that supplied it; the losing side's flag is not
\* in the result (so the result is exclusive exactly when the winning side is).
C4_FlagTravelsWithBound ==
  pc = "done" =>
    \A keyword \in {"minimum", "maximum"} :
      BothDefineDifferent(before, keyword) =>
        /\ Get(heap, 1, keyword) = Get(before, Winner(before, keyword), keyword)
        /\ Truthy(Get(heap, 1, ExcKeyword(keyword)))
             = Truthy(Get(before, Winner(before, keyword), ExcKeyword(keyword)))

----------------------------------------------------------------------------
(* Numeric exclusive bounds under DRAFT_06 (SpecDraft06).                  *)

Draft06BoundVals(k) == {Num(i) : i \in 1..MaxBound}

Draft06BoundObjs == UNION {ObjectsOver(K, Draft06BoundVals) : K \in SUBSET Range(BoundKeys)}

InitDraft06 ==
  \E p \in {Canonical(o, BoundKeys) : o \in Draft06BoundObjs}, s \in Draft06BoundObjs :
    CallInit(<<p, s>>, Ref(1), Ref(2), DRAFT_06)

SpecDraft06 == InitDraft06 /\ [][Collapse]_vars

\* C9: under DRAFT_06, when parent and subschema both define a numeric
\* exclusiveMinimum (resp. exclusiveMaximum), with or without minimum/maximum,
\* the collapsed parent's exclusiveMinimum is the maximum of the two values
\* (resp. its exclusiveMaximum the minimum of the two).
C9_NumericExclusive ==
  pc = "done" =>
    /\ (Has(before, 1, "exclusiveMinimum") /\ Has(before, 2, "exclusiveMinimum")) =>
          Get(heap, 1, "exclusiveMinimum")
            = MathMax(Get(before, 1, "exclusiveMinimum"), Get(before, 2, "exclusiveMinimum"))
    /\ (Has(before, 1, "exclusiveMaximum") /\ Has(before, 2, "exclusiveMaximum")) =>
          Get(heap, 1, "exclusiveMaximum")
            = MathMin(Get(before, 1, "exclusiveMaximum"), Get(before, 2, "exclusiveMaximum"))

----------------------------------------------------------------------------
(* Boolean schemas (SpecBoolean).                                          *)

MaxLen == 2

PlainKeys == <<"minLength", "title", "uniqueItems">>

PlainVals(k) ==
  CASE k = "minLength"   -> {Num(i) : i \in 1..MaxLen}
    [] k = "title"       -> {Str("a"), Str("b")}
    [] k = "uniqueItems" -> {JTrue, JFalse}

PlainObjs ==
  {Canonical(o, PlainKeys) :
     o \in UNION {ObjectsOver(K, PlainVals) : K \in SUBSET Range(PlainKeys)}}

\* object 1 is the parent and object 2 the subschema when they are not booleans
InitBoolean ==
  \E po \in PlainObjs, so \in PlainObjs :
    \E p \in {JTrue, JFalse, Ref(1)}, s \in {JTrue, JFalse, Ref(2)} :
      /\ (p.t = "bool" => po = EmptyObj)
      /\ (s.t = "bool" => so = EmptyObj)
      /\ CallInit(<<po, so>>, p, s, DRAFT_04)

SpecBoolean == InitBoolean /\ [][Collapse]_vars

InvolvesBoolean == theParent.t = "bool" \/ theSub.t = "bool"

ReturnedParentUnchanged == pc = "done" /\ ret = theParent /\ heap = before

\* C3 (as stated): whenever the parent is false or the subschema is true, whatever
\* the other argument, collapseSchemas returns the parent unchanged; every other
\* combination involving a boolean schema fails.
C3_AsStated ==
  pc # "call" =>
    /\ (theParent = JFalse \/ theSub = JTrue) => ReturnedParentUnchanged
    /\ (InvolvesBoolean /\ ~(theParent = JFalse \/ theSub = JTrue)) => pc = "failed"

\* C3 (amended): collapseSchemas returns the parent unchanged whenever the parent
\* is false, or the subschema is true and the parent is not true; a true parent
\* fails with every subschema (true included), and every other combination
\* involving a boolean schema fails, leaving the heap as it was.
C3_BooleanSchemas ==
  pc # "call" =>
    LET noAction == theParent = JFalse \/ (theSub = JTrue /\ theParent # JTrue)
    IN /\ noAction => ReturnedParentUnchanged
       /\ (InvolvesBoolean /\ ~noAction) =>
             pc = "failed" /\ err = Throw("boolean", "", <<>>) /\ heap = before

\* a true parent collapsed with a true subschema has thrown
C3_Witness == pc = "failed" /\ theParent = JTrue /\ theSub = JTrue

----------------------------------------------------------------------------
(* Composite keywords and their companions (SpecCompanion).                *)

CompanionKeys ==
  <<"items", "additionalItems", "properties", "patternProperties", "additionalProperties">>

\* The heap of a call: 1 the parent, 2 the subschema, then the schemas and
\* containers their keywords refer to (3..7 the parent's, 8..12 the subschema's).
CompanionVal(base, k) ==
  CASE k = "items"                -> Ref(base + 1)
    [] k = "additionalItems"      -> JFalse
    [] k = "properties"           -> Ref(base + 2)
    [] k = "patternProperties"    -> Ref(base + 4)
    [] k = "additionalProperties" -> JFalse

Titled(c) == Obj(<<"title">>, [title |-> Str(c)])

CompanionHeap(p, s) ==
  <<p, s,
    Titled("p"), Obj(<<"a">>, [a |-> Ref(5)]), Titled("p"), Obj(<<"x">>, [x |-> Ref(7)]),
    Titled("p"),
    Titled("s"), Obj(<<"a">>, [a |-> Ref(10)]), Titled("s"), Obj(<<"x">>, [x |-> Ref(12)]),
    Titled("s")>>

\* the subschema in every key order, the parent in one
CompanionSubs ==
  UNION {{Obj(q, [k \in K |-> CompanionVal(7, k)]) : q \in Perms(K)} :
           K \in SUBSET Range(CompanionKeys)}

CompanionParents ==
  {Canonical(Obj(q, [k \in Range(q) |-> CompanionVal(2, k)]), CompanionKeys) :
     q \in {SelectSeq(CompanionKeys, LAMBDA k : k \in K) : K \in SUBSET Range(CompanionKeys)}}

InitCompanion ==
  \E p \in CompanionParents, s \in CompanionSubs :
    CallInit(CompanionHeap(p, s), Ref(1), Ref(2), DRAFT_04)

SpecCompanion == InitCompanion /\ [][Collapse]_vars

\* one side declares the composite keyword and the other side its companion
CrossDeclared(h, composite, companion) ==
  \/ Has(h, theParent.n, composite) /\ Has(h, theSub.n, companion)
  \/ Has(h, theSub.n, composite) /\ Has(h, theParent.n, companion)

\* C6: collapseSchemas under DRAFT_04 never returns successfully having combined
\* one side's "items" (resp. "properties"/"patternProperties") with the other
\* side's "additionalItems" (resp. "additionalProperties"): every such call fails.
C6_CompanionRejected ==
  pc # "call" =>
    /\ CrossDeclared(before, "items", "additionalItems") => pc = "failed"
    /\ CrossDeclared(before, "properties", "additionalProperties") => pc = "failed"
    /\ CrossDeclared(before, "patternProperties", "additionalProperties") => pc = "failed"

----------------------------------------------------------------------------
(* Folding two subschemas in either order (SpecFold).                      *)

\* object ob with one more key
With(ob, k, v) ==
  Obj(Append(ob.keys, k), [j \in Range(ob.keys) \cup {k} |-> IF j = k THEN v ELSE ob.val[j]])

Names == {<<"a">>, <<"b">>, <<"a", "b">>, <<"b", "a">>}

FoldVals(k) ==
  CASE k \in {"minLength", "maxLength", "minimum", "exclusiveMinimum", "exclusiveMaximum"} ->
         {Num(i) : i \in 1..MaxLen}
    [] k \in {"required", "enum"} -> {Arr(q) : q \in Names}
    [] k = "type" -> {Str("a"), Str("b"), Arr(<<"a", "b">>), Arr(<<"b", "a">>)}
    [] k = "uniqueItems" -> {JTrue, JFalse}

FoldKeywords ==
  {"minLength", "maxLength", "minimum", "exclusiveMinimum", "exclusiveMaximum",
   "required", "enum", "type", "uniqueItems"}

\* two copies of the same node, one with "allOf": [A, B], one with [B, A]
FoldHeap(k, pv, av, bv) ==
  LET P == Obj(<<k>>, (k :> pv))
      A == Obj(<<k>>, (k :> av))
      B == Obj(<<k>>, (k :> bv))
  IN <<With(P, "allOf", Ref(3)), With(P, "allOf", Ref(4)),
       ArrObj(<<Ref(5), Ref(6)>>), ArrObj(<<Ref(8), Ref(7)>>),
       A, B, A, B>>

InitFold ==
  \E k \in FoldKeywords :
    \E pv \in FoldVals(k), av \in FoldVals(k), bv \in FoldVals(k) :
      \E uri \in {URI_DRAFT_04_HYPER, URI_DRAFT_06}, additional \in {<<>>, <<DRAFT_06>>} :
        WalkInit(FoldHeap(k, pv, av, bv), <<Ref(1), Ref(2)>>, Request(uri, additional))

SpecFold == InitFold /\ [][GetCallback \/ Visit]_vars

OrderInsensitive ==
  {"_maxOfMin", "_minOfMax", "_arrayUnion", "_arrayIntersection",
   "_singleValueOrArrayIntersection", "_or"}

\* arrays are compared as sets, numbers and booleans exactly
SameResult(a, b) == IF a.t = "arr" /\ b.t = "arr" THEN Range(a.s) = Range(b.s) ELSE a = b

\* C7: when a parent and two subschemas A, B all define a keyword handled by
\* _maxOfMin, _minOfMax, _arrayUnion, _arrayIntersection,
\* _singleValueOrArrayIntersection or _or, folding A then B leaves the parent with
\* the same value for it as folding B then A.
C7_OrderInsensitive ==
  pc = "done" =>
    \A k \in FoldKeywords :
      (/\ Has(heap0, 1, k) /\ Has(heap0, 5, k) /\ Has(heap0, 6, k)
       /\ k \in DOMAIN theVocab
       /\ theVocab[k] \in OrderInsensitive)
      => SameResult(Get(heap, 1, k), Get(heap, 2, k))

----------------------------------------------------------------------------
(* Whole documents (Spec).  A document is a root with an "allOf" list of   *)
(* at most MaxAllOf elements and possibly one child X under "properties"   *)
(* or "items"; an element is a boolean schema or an object that may have   *)
(* an "allOf" of its own and a child.                                      *)

MaxAllOf == 3

LEmpty    == EmptyObj
LType     == Obj(<<"type", "minLength">>, [type |-> Str("a"), minLength |-> Num(1)])
LTypes    == Obj(<<"type", "format">>, [type |-> Arr(<<"a", "b">>), format |-> Str("f")])
LFormat   == Obj(<<"minLength", "format">>, [minLength |-> Num(MaxLen), format |-> Str("g")])
LDangling == Obj(<<"exclusiveMinimum">>, [exclusiveMinimum |-> JTrue])
LBound    == Obj(<<"minimum", "exclusiveMinimum">>,
                 [minimum |-> Num(1), exclusiveMinimum |-> JTrue])

\* no schema in this place
None == ArrObj(<<>>)

\* a described node: its own keywords, the one element of its "allOf" (or None),
\* and its child prop under keyword via (or "")
Node(base, inner, via, prop) ==
  [bool |-> Undef, base |-> base, inner |-> inner, via |-> via, prop |-> prop]
BoolNode(b) == [bool |-> b, base |-> None, inner |-> None, via |-> "", prop |-> None]

Elements ==
  {BoolNode(JTrue), BoolNode(JFalse),
   Node(LFormat, None, "", None),
   Node(LBound, LTypes, "", None),
   Node(LTypes, None, "properties", LType),
   Node(LEmpty, LFormat, "properties", LFormat)}

RootBases == {LEmpty, LTypes}

RootChildren ==
  {Node(LDangling, LType, "properties", None),
   Node(LBound, LType, "items", None)}

\* the five heap slots b+1..b+5 of element e: the element, its "allOf" list, the
\* element of that list, its "properties" container, its child
ElemSlots(e, b) ==
  IF e.bool # Undef THEN <<EmptyObj, EmptyObj, EmptyObj, EmptyObj, EmptyObj>>
  ELSE LET withChild ==
             CASE e.via = "properties" -> With(e.base, "properties", Ref(b + 4))
               [] e.via = "items"      -> With(e.base, "items", Ref(b + 5))
               [] OTHER                -> e.base
       IN << IF e.inner # None THEN With(withChild, "allOf", Ref(b + 2)) ELSE withChild,
             IF e.inner # None THEN ArrObj(<<Ref(b + 3)>>) ELSE EmptyObj,
             IF e.inner # None THEN e.inner ELSE EmptyObj,
             IF e.via = "properties" THEN Obj(<<"a">>, [a |-> Ref(b + 5)]) ELSE EmptyObj,
             IF e.via # "" THEN e.prop ELSE EmptyObj >>

\* slots 1..6: the root, its "properties" container, its child X, X's "allOf"
\* list, the element of that list, the root's "allOf" list
RootSlots(base, x, es) ==
  LET withChild ==
        CASE x.via = "properties" -> With(base, "properties", Ref(2))
          [] x.via = "items"      -> With(base, "items", Ref(3))
          [] OTHER                -> base
  IN << With(withChild, "allOf", Ref(6)),
        IF x.via = "properties" THEN Obj(<<"a">>, [a |-> Ref(3)]) ELSE EmptyObj,
        IF x.via # "" THEN With(x.base, "allOf", Ref(4)) ELSE EmptyObj,
        IF x.via # "" THEN ArrObj(<<Ref(5)>>) ELSE EmptyObj,
        IF x.via # "" THEN x.inner ELSE EmptyObj,
        ArrObj([j \in 1..Len(es) |->
                  IF es[j].bool # Undef THEN es[j].bool ELSE Ref(6 + 5 * (j - 1) + 1)]) >>

DocHeap(base, x, es) ==
  [i \in 1..(6 + 5 * Len(es)) |->
     IF i <= 6 THEN RootSlots(base, x, es)[i]
     ELSE LET j == ((i - 7) \div 5) + 1
          IN ElemSlots(es[j], 6 + 5 * (j - 1))[((i - 7) % 5) + 1]]

Init ==
  \E base \in RootBases, x \in RootChildren :
    \E es \in UNION {[1..n -> Elements] : n \in 0..MaxAllOf} :
      \E uri \in {URI_DRAFT_04, URI_DRAFT_06} :
        WalkInit(DocHeap(base, x, es), <<Ref(1)>>, Request(uri, <<>>))

Next == GetCallback \/ Visit

Spec == Init /\ [][Next]_vars

\* the invocation the walker made last: the one that failed, or the one before pos
Called     == pc = "failed" \/ pos >= 1
LastVisit  == IF pc = "failed" THEN doc[pos + 1] ELSE doc[pos]
\* the last invocation folded an "allOf"
Folded     == Called /\ IsObject(LastVisit.node) /\ Has(before, LastVisit.node.n, "allOf")
FoldedNode == LastVisit.node.n
FoldedList == before[Get(before, FoldedNode, "allOf").n].elems

KeySet(h, o) == Range(h[o].keys)

\* C2: when the callback has been invoked on every node of the document in
\* post-order and no invocation failed, no object of the document, at any depth,
\* has the keyword "allOf".
C2_NoAllOfLeft ==
  pc = "done" => \A o \in DOMAIN heap : ~Has(heap, o, "allOf")

\* a finished pass over a document that had "allOf" at the root, in the root's
\* child and in an element of the root's "allOf"
C2_Witness ==
  /\ pc = "done"
  /\ Has(heap0, 1, "allOf") /\ Has(heap0, 3, "allOf")
  /\ \E o \in DOMAIN heap0 : o > 6 /\ Has(heap0, o, "allOf")

\* the content of value a in heap h1 is the content of value b in heap h2
RECURSIVE SameContent(_, _, _, _)
SameContent(h1, a, h2, b) ==
  IF a.t = "ref" /\ b.t = "ref"
  THEN LET oa == h1[a.n]
           ob == h2[b.n]
       IN /\ oa.kind = ob.kind
          /\ oa.keys = ob.keys
          /\ \A k \in Range(oa.keys) : SameContent(h1, oa.val[k], h2, ob.val[k])
          /\ Len(oa.elems) = Len(ob.elems)
          /\ \A i \in DOMAIN oa.elems : SameContent(h1, oa.elems[i], h2, ob.elems[i])
  ELSE a = b

\* C5: folding a node's "allOf" modifies no element of the list, nor anything
\* reached from one: each element's content after the callback is its content
\* before it.
C5_SubschemasReadOnly ==
  Folded => \A j \in DOMAIN FoldedList :
              SameContent(before, FoldedList[j], heap, FoldedList[j])

\* the last invocation folded a one-element "allOf" whose element is an object
\* with no keyword of the node
DisjointSingle ==
  /\ Folded
  /\ Len(FoldedList) = 1
  /\ IsObject(FoldedList[1])
  /\ KeySet(before, FoldedList[1].n) \cap KeySet(before, FoldedNode) = {}

\* the node's keywords, its single element's keywords, and the node's
\* exclusive flags that lack their companion bound
OwnKeys     == KeySet(before, FoldedNode) \ {"allOf"}
ElementKeys == KeySet(before, FoldedList[1].n)
DanglingKeys ==
  {k \in {"exclusiveMinimum", "exclusiveMaximum"} :
     /\ Has(before, FoldedNode, k)
     /\ ~Has(before, FoldedNode, IF k = "exclusiveMinimum" THEN "minimum" ELSE "maximum")}

\* the callback succeeded and left the node with its keywords in kept and those of
\* the element, each with its original value
ShallowUnion(kept) ==
  /\ pc # "failed"
  /\ KeySet(heap, FoldedNode) = kept \cup ElementKeys
  /\ \A k \in kept : Get(heap, FoldedNode, k) = Get(before, FoldedNode, k)
  /\ \A k \in ElementKeys : Get(heap, FoldedNode, k) = Get(before, FoldedList[1].n, k)

\* C8 (as stated): a node whose "allOf" is [S], S an object with keywords disjoint
\* from the node's, is left with exactly its own keywords minus "allOf" plus those
\* of S, each with its original value.
C8_AsStated == DisjointSingle => ShallowUnion(OwnKeys)

\* C8 (amended): such a node is left with its own keywords minus "allOf" and minus
\* any exclusiveMinimum/exclusiveMaximum it had without minimum/maximum (these are
\* deleted), plus the keywords of S, each with its original value.
C8_DisjointSingleFold == DisjointSingle => ShallowUnion(OwnKeys \ DanglingKeys)

\* a disjoint one-element fold was made into a node that keeps a bound with its
\* exclusive flag
C8_Witness ==
  /\ DisjointSingle
  /\ Has(before, FoldedNode, "minimum") /\ Has(heap, FoldedNode, "exclusiveMinimum")
  /\ Has(heap, FoldedNode, "type")

\* the first j elements of list es collapsed into node in turn, stopping at the
\* first failure
RECURSIVE FoldUpTo(_, _, _, _, _, _)
FoldUpTo(h, node, es, fullPath, vocab, j) ==
  IF j = 0 THEN Done(h)
  ELSE LET r == FoldUpTo(h, node, es, fullPath, vocab, j - 1)
       IN IF Failed(r) THEN r
          ELSE collapseSchemas(r.h, Ref(node), fullPath, es[j], vocab)

FullPath == LastVisit.parentPath \o LastVisit.path

\* collapsing element j fails, after the elements before it collapsed
FailsAt(j) ==
  /\ ~Failed(FoldUpTo(before, FoldedNode, FoldedList, FullPath, theVocab, j - 1))
  /\ Failed(FoldUpTo(before, FoldedNode, FoldedList, FullPath, theVocab, j))

\* C10: if collapsing the i-th element of a node's "allOf" fails, the callback
\* fails with that error, the node keeps its "allOf", and the heap is the one the
\* elements before i and the partial merge of element i left: no element after i
\* is merged and nothing is rolled back.
C10_FailFast ==
  Folded =>
    \A i \in DOMAIN FoldedList :
      FailsAt(i) =>
        LET r == FoldUpTo(before, FoldedNode, FoldedList, FullPath, theVocab, i)
        IN /\ pc = "failed"
           /\ err = r.err
           /\ Has(heap, FoldedNode, "allOf")
           /\ heap = r.h

\* the second of three elements failed after copying a keyword, the first having
\* changed the node
C10_Witness ==
  /\ pc = "failed" /\ Folded
  /\ Len(FoldedList) = 3 /\ FailsAt(2)
  /\ FoldUpTo(before, FoldedNode, FoldedList, FullPath, theVocab, 1).h # before
  /\ heap # FoldUpTo(before, FoldedNode, FoldedList, FullPath, theVocab, 1).h

====
